---- MODULE Spec2Model ----
(***************************************************************************)
(* MindFlow flow editor (frontend/src/components/FlowEditor): the nodes    *)
(* and edges state of FlowEditor, the module counter nodeId, the           *)
(* localStorage slot 'mindflow-data' and the local title/content state of  *)
(* each mounted CustomNode.  JavaScript values are modelled as tagged      *)
(* records, JSON text as a sequence of tokens; JSON.stringify and          *)
(* JSON.parse are a printer and a recursive-descent parser over them.      *)
(***************************************************************************)
EXTENDS Integers, Sequences, FiniteSets, TLC

VARIABLES
  nodes,    \* the nodes state of FlowEditor, a JavaScript array
  edges,    \* the edges state of FlowEditor, a JavaScript array
  nodeId,   \* the module counter
  stored,   \* localStorage's value under 'mindflow-data'
  local,    \* node id -> title and content state of its CustomNode
  outcome,  \* the last event and how it ended
  saved     \* history: the nodes and edges of the last accepted saveFlow

vars == <<nodes, edges, nodeId, stored, local, outcome, saved>>

(***************************************************************************)
(* Bounds of the model.                                                    *)
(***************************************************************************)
\* addNode is not taken once the counter has reached MaxNodeId
MaxNodeId == 2

\* addNode is not taken once the nodes state holds MaxNodes entries
MaxNodes == MaxNodeId + 1

\* onConnect is not taken once the edges state holds MaxEdges entries
MaxEdges == 2

(***************************************************************************)
(* JavaScript values.  k is the type tag; s the payload of a string or a   *)
(* boolean; n the payload of a number; keys and c the own keys (in         *)
(* insertion order) and their values for an object; c the items of an      *)
(* array.                                                                  *)
(***************************************************************************)
JSV(k, s, n, keys, c) == [k |-> k, s |-> s, n |-> n, keys |-> keys, c |-> c]

Undefined == JSV("undef", "", 0, <<>>, <<>>)

Null == JSV("null", "", 0, <<>>, <<>>)

Bool(b) == JSV("bool", IF b THEN "true" ELSE "false", 0, <<>>, <<>>)

Num(n) == JSV("num", "", n, <<>>, <<>>)

Str(s) == JSV("str", s, 0, <<>>, <<>>)

Arr(items) == JSV("arr", "", 0, <<>>, items)

Obj(keys, vals) == JSV("obj", "", 0, keys, vals)

\* index of key in the object's own keys, 0 when absent
KeyIndex(o, key) ==
  IF \E i \in 1..Len(o.keys) : o.keys[i] = key
  THEN CHOOSE i \in 1..Len(o.keys) : o.keys[i] = key
  ELSE 0

\* o.key for a value that is neither null nor undefined
Get(o, key) ==
  IF o.k = "obj" /\ KeyIndex(o, key) # 0 THEN o.c[KeyIndex(o, key)] ELSE Undefined

\* o[key] = val on an object literal being built: a repeated key keeps its place
Put(o, key, val) ==
  IF KeyIndex(o, key) # 0
  THEN Obj(o.keys, [o.c EXCEPT ![KeyIndex(o, key)] = val])
  ELSE Obj(Append(o.keys, key), Append(o.c, val))

\* ToBoolean
Truthy(v) ==
  CASE v.k = "undef" -> FALSE
    [] v.k = "null" -> FALSE
    [] v.k = "bool" -> v.s = "true"
    [] v.k = "num" -> v.n # 0
    [] v.k = "str" -> v.s # ""
    [] OTHER -> TRUE

\* a || b
OrElse(a, b) == IF Truthy(a) THEN a ELSE b

(***************************************************************************)
(* JSON text: a sequence of tokens <<kind, text>>.                         *)
(***************************************************************************)
Tok(kind, text) == <<kind, text>>

\* the numbers a number token of the model can spell: the coordinates in use
Numbers == {0, 100, 242, 250, 317}

RECURSIVE Stringify(_)
RECURSIVE StringifyItems(_, _)
RECURSIVE StringifyMembers(_, _, _)

\* the items of an array from index i on, separated by commas; an undefined
\* item is written as null
StringifyItems(items, i) ==
  IF i > Len(items) THEN <<>>
  ELSE (IF i > 1 THEN <<Tok("p", ",")>> ELSE <<>>)
       \o (IF items[i].k = "undef" THEN <<Tok("lit", "null")>> ELSE Stringify(items[i]))
       \o StringifyItems(items, i + 1)

\* the members of an object from index i on; a member whose value is
\* undefined is left out (first tells whether a member was written before)
StringifyMembers(o, i, first) ==
  IF i > Len(o.keys) THEN <<>>
  ELSE IF o.c[i].k = "undef" THEN StringifyMembers(o, i + 1, first)
  ELSE (IF first THEN <<>> ELSE <<Tok("p", ",")>>)
       \o <<Tok("str", o.keys[i]), Tok("p", ":")>>
       \o Stringify(o.c[i])
       \o StringifyMembers(o, i + 1, FALSE)

\* JSON.stringify(v) for a value v that is not undefined
Stringify(v) ==
  CASE v.k = "null" -> <<Tok("lit", "null")>>
    [] v.k = "bool" -> <<Tok("lit", v.s)>>
    [] v.k = "num" -> <<Tok("num", ToString(v.n))>>
    [] v.k = "str" -> <<Tok("str", v.s)>>
    [] v.k = "arr" -> <<Tok("p", "[")>> \o StringifyItems(v.c, 1) \o <<Tok("p", "]")>>
    [] v.k = "obj" -> <<Tok("p", "{")>> \o StringifyMembers(v, 1, TRUE) \o <<Tok("p", "}")>>
    [] OTHER -> <<Tok("lit", "null")>>

\* result of a parsing step: ok, the value read, the index of the next token
PR(ok, v, i) == [ok |-> ok, v |-> v, i |-> i]

ParseFail == PR(FALSE, Undefined, 0)

IsTok(t, i, kind, text) == i <= Len(t) /\ t[i] = Tok(kind, text)

NumberOf(text) ==
  IF \E n \in Numbers : ToString(n) = text
  THEN Num(CHOOSE n \in Numbers : ToString(n) = text)
  ELSE Undefined

RECURSIVE ParseValue(_, _)
RECURSIVE ParseItems(_, _, _)
RECURSIVE ParseMembers(_, _, _)

\* after '[' or ',': an item, then ',' and more items, or ']'
ParseItems(t, i, acc) ==
  LET r == ParseValue(t, i) IN
  IF ~r.ok THEN ParseFail
  ELSE IF IsTok(t, r.i, "p", ",") THEN ParseItems(t, r.i + 1, Append(acc, r.v))
  ELSE IF IsTok(t, r.i, "p", "]") THEN PR(TRUE, Arr(Append(acc, r.v)), r.i + 1)
  ELSE ParseFail

\* after '{' or ',': a string key, ':', a value, then ',' and more, or '}'
ParseMembers(t, i, acc) ==
  IF ~(i + 1 <= Len(t) /\ t[i][1] = "str" /\ t[i + 1] = Tok("p", ":")) THEN ParseFail
  ELSE LET r == ParseValue(t, i + 2) IN
       IF ~r.ok THEN ParseFail
       ELSE IF IsTok(t, r.i, "p", ",") THEN ParseMembers(t, r.i + 1, Put(acc, t[i][2], r.v))
       ELSE IF IsTok(t, r.i, "p", "}") THEN PR(TRUE, Put(acc, t[i][2], r.v), r.i + 1)
       ELSE ParseFail

ParseValue(t, i) ==
  IF i > Len(t) THEN ParseFail
  ELSE CASE t[i] = Tok("lit", "null") -> PR(TRUE, Null, i + 1)
         [] t[i] = Tok("lit", "true") -> PR(TRUE, Bool(TRUE), i + 1)
         [] t[i] = Tok("lit", "false") -> PR(TRUE, Bool(FALSE), i + 1)
         [] t[i][1] = "num" ->
              IF NumberOf(t[i][2]).k = "num" THEN PR(TRUE, NumberOf(t[i][2]), i + 1)
              ELSE ParseFail
         [] t[i][1] = "str" -> PR(TRUE, Str(t[i][2]), i + 1)
         [] t[i] = Tok("p", "[") ->
              IF IsTok(t, i + 1, "p", "]") THEN PR(TRUE, Arr(<<>>), i + 2)
              ELSE ParseItems(t, i + 1, <<>>)
         [] t[i] = Tok("p", "{") ->
              IF IsTok(t, i + 1, "p", "}") THEN PR(TRUE, Obj(<<>>, <<>>), i + 2)
              ELSE ParseMembers(t, i + 1, Obj(<<>>, <<>>))
         [] OTHER -> ParseFail

\* JSON.parse(t): ok is FALSE where JSON.parse throws SyntaxError
Parse(t) ==
  LET r == ParseValue(t, 1) IN
  IF r.ok /\ r.i = Len(t) + 1 THEN PR(TRUE, r.v, r.i) ELSE ParseFail

(***************************************************************************)
(* FlowEditor.tsx                                                          *)
(***************************************************************************)
\* the values Math.random() * 400 + 100 and Math.random() * 300 + 100 are
\* drawn from
RandomPositions == {<<100, 100>>, <<317, 242>>}

\* a node as addNode and initialNodes build it
MakeNode(id, x, y, title, content) ==
  Obj(<<"id", "type", "position", "data">>,
      <<Str(id), Str("custom"),
        Obj(<<"x", "y">>, <<Num(x), Num(y)>>),
        Obj(<<"title", "content">>, <<Str(title), Str(content)>>)>>)

initialNodes == Arr(<<MakeNode("node-1", 250, 100, "Node 1", "")>>)

initialEdges == Arr(<<>>)

\* the ids of the entries of a nodes array
NodeIds(nds) == {Get(nds.c[i], "id").s : i \in 1..Len(nds.c)}

\* getEdgeId of @xyflow/react for a connection without handle ids
getEdgeId(source, target) == "xy-edge__" \o source \o "-" \o target

\* connectionExists of @xyflow/react: an edge with the same source and target
\* (both handles are absent on every edge of this editor)
connectionExists(source, target, eds) ==
  \E i \in 1..Len(eds.c) :
    /\ Get(eds.c[i], "source") = Str(source)
    /\ Get(eds.c[i], "target") = Str(target)
    /\ ~Truthy(Get(eds.c[i], "sourceHandle"))
    /\ ~Truthy(Get(eds.c[i], "targetHandle"))

\* addEdge(params, eds) of @xyflow/react for params = {source, sourceHandle:
\* null, target, targetHandle: null}: the null handles are deleted, the edge
\* gets its id, and it is appended unless the same connection exists
addEdge(source, target, eds) ==
  IF source = "" \/ target = "" THEN eds
  ELSE IF connectionExists(source, target, eds) THEN eds
  ELSE Arr(Append(eds.c,
         Obj(<<"source", "target", "id">>,
             <<Str(source), Str(target), Str(getEdgeId(source, target))>>)))

\* localStorage: has is FALSE while the key is absent
NoItem == [has |-> FALSE, text |-> <<>>]

Item(text) == [has |-> TRUE, text |-> text]

\* if (savedData): getItem gave a non-empty string
HasSavedData(store) == store.has /\ store.text # <<>>

\* localStorage.setItem(key, text): accepted tells whether the browser stores
\* the value; when it does not, setItem throws and the old value stays
setItem(store, text, accepted) == IF accepted THEN Item(text) ELSE store

\* history of saveFlow: nothing saved yet, or the state it saved
NoSave == [has |-> FALSE, nodes |-> Arr(<<>>), edges |-> Arr(<<>>)]

Save(nds, eds) == [has |-> TRUE, nodes |-> nds, edges |-> eds]

\* the last event: the handler (or "init", "storage"), how it ended (ok or
\* the uncaught exception), what it logged
Outcome(op, result, log) == [op |-> op, result |-> result, log |-> log]

\* the local state of the CustomNode components after rendering nds: a node
\* id that stays mounted keeps its state, a new one starts from its data
Render(nds, loc) ==
  [id \in NodeIds(nds) |->
     IF id \in DOMAIN loc THEN loc[id]
     ELSE LET n == nds.c[CHOOSE i \in 1..Len(nds.c) : Get(nds.c[i], "id").s = id]
          IN [title |-> Get(Get(n, "data"), "title").s,
              content |-> Get(Get(n, "data"), "content").s]]

NoLocal == [id \in {} |-> [title |-> "", content |-> ""]]

Init ==
  /\ nodes = initialNodes
  /\ edges = initialEdges
  /\ nodeId = 1
  /\ stored = NoItem
  /\ saved = NoSave
  /\ local = Render(initialNodes, NoLocal)
  /\ outcome = Outcome("init", "ok", "")

\* onConnect: a connection drawn from the source handle of one rendered node
\* to the target handle of another (or the same) rendered node
OnConnect ==
  /\ Len(edges.c) < MaxEdges
  /\ \E source \in NodeIds(nodes), target \in NodeIds(nodes) :
       edges' = addEdge(source, target, edges)
  /\ outcome' = Outcome("onConnect", "ok", "")
  /\ UNCHANGED <<nodes, nodeId, stored, saved, local>>

AddNode ==
  /\ nodeId < MaxNodeId
  /\ Len(nodes.c) < MaxNodes
  /\ nodeId' = nodeId + 1
  /\ \E pos \in RandomPositions :
       nodes' = Arr(Append(nodes.c,
                  MakeNode("node-" \o ToString(nodeId'), pos[1], pos[2],
                           "Node " \o ToString(nodeId'), "")))
  /\ local' = Render(nodes', local)
  /\ outcome' = Outcome("addNode", "ok", "")
  /\ UNCHANGED <<edges, stored, saved>>

\* saveFlow that leaves the edges out of flowData
SaveFlowNodesOnly ==
  \E accepted \in BOOLEAN :
    LET flowData == Obj(<<"nodes">>, <<nodes>>) IN
    /\ stored' = setItem(stored, Stringify(flowData), accepted)
    /\ saved' = IF accepted THEN Save(nodes, edges) ELSE saved
    /\ outcome' = IF accepted THEN Outcome("saveFlow", "ok", "Flow saved")
                  ELSE Outcome("saveFlow", "QuotaExceededError", "")
    /\ UNCHANGED <<nodes, edges, nodeId, local>>

\* saveFlow that removes the item before it writes the new value
SaveFlowRemoveFirst ==
  \E accepted \in BOOLEAN :
    LET flowData == Obj(<<"nodes", "edges">>, <<nodes, edges>>) IN
    /\ stored' = setItem(NoItem, Stringify(flowData), accepted)
    /\ saved' = IF accepted THEN Save(nodes, edges) ELSE saved
    /\ outcome' = IF accepted THEN Outcome("saveFlow", "ok", "Flow saved")
                  ELSE Outcome("saveFlow", "QuotaExceededError", "")
    /\ UNCHANGED <<nodes, edges, nodeId, local>>

\* saveFlow; accepted is whether localStorage takes the value
SaveFlow ==
  \E accepted \in BOOLEAN :
    LET flowData == Obj(<<"nodes", "edges">>, <<nodes, edges>>) IN
    /\ stored' = setItem(stored, Stringify(flowData), accepted)
    /\ saved' = IF accepted THEN Save(nodes, edges) ELSE saved
    /\ outcome' = IF accepted THEN Outcome("saveFlow", "ok", "Flow saved")
                  ELSE Outcome("saveFlow", "QuotaExceededError", "")
    /\ UNCHANGED <<nodes, edges, nodeId, local>>

\* loadFlow without the "|| []" defaults
LoadFlowNoDefault ==
  IF ~HasSavedData(stored)
  THEN /\ outcome' = Outcome("loadFlow", "ok", "")
       /\ UNCHANGED <<nodes, edges, nodeId, stored, saved, local>>
  ELSE LET p == Parse(stored.text) IN
       IF ~p.ok
       THEN /\ outcome' = Outcome("loadFlow", "SyntaxError", "")
            /\ UNCHANGED <<nodes, edges, nodeId, stored, saved, local>>
       ELSE IF p.v.k = "null"
       THEN /\ outcome' = Outcome("loadFlow", "TypeError", "")
            /\ UNCHANGED <<nodes, edges, nodeId, stored, saved, local>>
       ELSE /\ nodes' = Get(p.v, "nodes")
            /\ edges' = Get(p.v, "edges")
            /\ local' = Render(nodes', local)
            /\ outcome' = Outcome("loadFlow", "ok", "Flow loaded")
            /\ UNCHANGED <<nodeId, stored, saved>>

\* loadFlow: nothing happens without saved data; JSON.parse may throw
\* SyntaxError and reading a property of null throws TypeError, both uncaught
LoadFlow ==
  IF ~HasSavedData(stored)
  THEN /\ outcome' = Outcome("loadFlow", "ok", "")
       /\ UNCHANGED <<nodes, edges, nodeId, stored, saved, local>>
  ELSE LET p == Parse(stored.text) IN
       IF ~p.ok
       THEN /\ outcome' = Outcome("loadFlow", "SyntaxError", "")
            /\ UNCHANGED <<nodes, edges, nodeId, stored, saved, local>>
       ELSE IF p.v.k = "null"
       THEN /\ outcome' = Outcome("loadFlow", "TypeError", "")
            /\ UNCHANGED <<nodes, edges, nodeId, stored, saved, local>>
       ELSE /\ nodes' = OrElse(Get(p.v, "nodes"), Arr(<<>>))
            /\ edges' = OrElse(Get(p.v, "edges"), Arr(<<>>))
            /\ local' = Render(nodes', local)
            /\ outcome' = Outcome("loadFlow", "ok", "Flow loaded")
            /\ UNCHANGED <<nodeId, stored, saved>>

\* clearFlow that forgets the edges
ClearFlowNodesOnly ==
  /\ nodes' = Arr(<<>>)
  /\ local' = Render(nodes', local)
  /\ outcome' = Outcome("clearFlow", "ok", "")
  /\ UNCHANGED <<edges, nodeId, stored, saved>>

\* clearFlow that also removes the localStorage item
ClearFlowRemovesItem ==
  /\ nodes' = Arr(<<>>)
  /\ edges' = Arr(<<>>)
  /\ stored' = NoItem
  /\ local' = Render(nodes', local)
  /\ outcome' = Outcome("clearFlow", "ok", "")
  /\ UNCHANGED <<nodeId, saved>>

ClearFlow ==
  /\ nodes' = Arr(<<>>)
  /\ edges' = Arr(<<>>)
  /\ local' = Render(nodes', local)
  /\ outcome' = Outcome("clearFlow", "ok", "")
  /\ UNCHANGED <<nodeId, stored, saved>>

\* the page is loaded again: the module and the components start afresh,
\* localStorage stays
Reload ==
  /\ nodes' = initialNodes
  /\ edges' = initialEdges
  /\ nodeId' = 1
  /\ local' = Render(initialNodes, NoLocal)
  /\ outcome' = Outcome("init", "ok", "")
  /\ UNCHANGED <<stored, saved>>

(***************************************************************************)
(* CustomNode.tsx                                                          *)
(***************************************************************************)
\* what the user types into the title input and the content textarea
TypedTitles == {"Idea"}

TypedContents == {"text"}

\* handleTitleChange that also writes the title into the node's data in
\* the nodes state of FlowEditor
HandleTitleChangeUpdatesParent ==
  /\ \E id \in DOMAIN local, newTitle \in TypedTitles :
       /\ local' = [local EXCEPT ![id].title = newTitle]
       /\ nodes' = Arr([i \in 1..Len(nodes.c) |->
                     IF Get(nodes.c[i], "id").s = id
                     THEN Put(nodes.c[i], "data",
                              Put(Get(nodes.c[i], "data"), "title", Str(newTitle)))
                     ELSE nodes.c[i]])
  /\ outcome' = Outcome("handleTitleChange", "ok", "")
  /\ UNCHANGED <<edges, nodeId, stored, saved>>

\* handleTitleChange of the CustomNode of node id: setTitle only
HandleTitleChange ==
  /\ \E id \in DOMAIN local, newTitle \in TypedTitles :
       local' = [local EXCEPT ![id].title = newTitle]
  /\ outcome' = Outcome("handleTitleChange", "ok", "")
  /\ UNCHANGED <<nodes, edges, nodeId, stored, saved>>

\* handleContentChange of the CustomNode of node id: setContent only
HandleContentChange ==
  /\ \E id \in DOMAIN local, newContent \in TypedContents :
       local' = [local EXCEPT ![id].content = newContent]
  /\ outcome' = Outcome("handleContentChange", "ok", "")
  /\ UNCHANGED <<nodes, edges, nodeId, stored, saved>>

\* handleRemoveNode: logs, removes nothing
HandleRemoveNode ==
  /\ DOMAIN local # {}
  /\ outcome' = Outcome("handleRemoveNode", "ok", "Remove node:")
  /\ UNCHANGED <<nodes, edges, nodeId, stored, saved, local>>

(***************************************************************************)
(* Values under 'mindflow-data' that saveFlow did not write (another       *)
(* script of the origin, the developer tools, an older build).             *)
(***************************************************************************)
foreignNode == MakeNode("node-1", 100, 100, "Imported", "")

foreignEdge ==
  Obj(<<"source", "target", "id">>,
      <<Str("node-1"), Str("node-9"), Str(getEdgeId("node-1", "node-9"))>>)

\* {"nodes":[...]} with no edges member
docNoEdges == Stringify(Obj(<<"nodes">>, <<Arr(<<foreignNode>>)>>))

\* an edge whose target is no node of the document
docDangling ==
  Stringify(Obj(<<"nodes", "edges">>, <<Arr(<<foreignNode>>), Arr(<<foreignEdge>>)>>))

\* {"nodes": and nothing more
docTruncated == SubSeq(docNoEdges, 1, 3)

docNull == <<Tok("lit", "null")>>

docArray == <<Tok("p", "["), Tok("p", "]")>>

docEmptyString == <<>>

ForeignTexts == {docNoEdges, docDangling, docTruncated, docNull, docArray, docEmptyString}

ExternalWrite ==
  /\ \E text \in ForeignTexts : stored' = Item(text)
  /\ outcome' = Outcome("storage", "ok", "")
  /\ UNCHANGED <<nodes, edges, nodeId, local, saved>>

(***************************************************************************)
(* Specifications.                                                         *)
(***************************************************************************)
\* one session of the editor; localStorage is written by saveFlow only
Next == AddNode \/ OnConnect \/ SaveFlow \/ LoadFlow \/ ClearFlow

Spec == Init /\ [][Next]_vars

\* sessions separated by page reloads
NextReload == Next \/ Reload

SpecReload == Init /\ [][NextReload]_vars

\* one session that edits and loads what other writers left in the slot
\* (what saveFlow writes is covered by Spec)
NextExt == AddNode \/ OnConnect \/ LoadFlow \/ ClearFlow \/ ExternalWrite

SpecExt == Init /\ [][NextExt]_vars

\* one session, with the user typing into the nodes (edges play no part in
\* what the node components hold)
NextUI ==
  \/ AddNode \/ SaveFlow \/ LoadFlow \/ ClearFlow
  \/ HandleTitleChange \/ HandleContentChange \/ HandleRemoveNode

SpecUI == Init /\ [][NextUI]_vars

(***************************************************************************)
(* Properties.                                                             *)
(***************************************************************************)
\* the flow that saveFlow serializes in the current state
flowData == Obj(<<"nodes", "edges">>, <<nodes, edges>>)

\* every edge of eds has its source and its target among the ids of nds
Integrity(nds, eds) ==
  \A i \in 1..Len(eds.c) :
    /\ Get(eds.c[i], "source").s \in NodeIds(nds)
    /\ Get(eds.c[i], "target").s \in NodeIds(nds)

\* C1: a loadFlow that follows an accepted saveFlow, whatever addNode,
\* onConnect and clearFlow did in between, leaves nodes and edges equal to
\* the ones that saveFlow saved; and parsing the serialization of the
\* current flow gives back the current flow.
C1_SaveLoadRoundTrip ==
  /\ (outcome.op = "loadFlow" /\ saved.has) =>
       (nodes = saved.nodes /\ edges = saved.edges)
  /\ Parse(Stringify(flowData)).ok
  /\ Parse(Stringify(flowData)).v = flowData

\* a loadFlow has restored a saved flow of two nodes and an edge
C1_Witness ==
  /\ outcome = Outcome("loadFlow", "ok", "Flow loaded")
  /\ saved.has
  /\ Len(saved.nodes.c) >= 2
  /\ Len(saved.edges.c) >= 1
  /\ nodes = saved.nodes
  /\ edges = saved.edges

\* C2: no two entries of the nodes state have the same id, in any state
\* reachable by addNode, clearFlow, saveFlow, loadFlow and page reloads.
C2_UniqueNodeIds ==
  \A i, j \in 1..Len(nodes.c) :
    i # j => Get(nodes.c[i], "id") # Get(nodes.c[j], "id")

\* C3: the edges state never holds two edges with the same target node and
\* target handle.
C3_SingleIncoming ==
  \A i, j \in 1..Len(edges.c) :
    i # j => ~(/\ Get(edges.c[i], "target") = Get(edges.c[j], "target")
               /\ Get(edges.c[i], "targetHandle") = Get(edges.c[j], "targetHandle"))

\* C4: every edge of the edges state has a source and a target that are ids
\* of nodes of the nodes state.
C4_ReferentialIntegrity == Integrity(nodes, edges)

\* a loadFlow has installed a flow with an edge
C4_Witness ==
  /\ outcome = Outcome("loadFlow", "ok", "Flow loaded")
  /\ Len(edges.c) >= 1
  /\ Len(nodes.c) >= 2

\* C5: a saveFlow whose write fails leaves the value under 'mindflow-data'
\* and the nodes and edges state as they were before the call.
C5_FailedSaveLosesNothing ==
  [][(outcome'.op = "saveFlow" /\ outcome'.result # "ok") =>
       (stored' = stored /\ nodes' = nodes /\ edges' = edges)]_vars

\* a saveFlow has failed while an older, different flow is persisted
C5_Witness ==
  /\ outcome = Outcome("saveFlow", "QuotaExceededError", "")
  /\ stored.has
  /\ stored.text = Stringify(Obj(<<"nodes", "edges">>, <<saved.nodes, saved.edges>>))
  /\ stored.text # Stringify(flowData)

\* the stored value is there and does not parse as a JSON object
Malformed(store) ==
  HasSavedData(store) /\ (~Parse(store.text).ok \/ Parse(store.text).v.k # "obj")

\* C6: loadFlow on a stored value that does not parse as the expected
\* document ends in the reported error MalformedDocument and leaves the
\* nodes and edges state as before.
C6_MalformedLoadReported ==
  [][(outcome'.op = "loadFlow" /\ Malformed(stored)) =>
       (/\ outcome'.result = "MalformedDocument"
        /\ nodes' = nodes
        /\ edges' = edges)]_vars

\* C7: loadFlow never installs a flow that has a connection whose source or
\* target is no node of the flow.
C7_NoDanglingInstalled ==
  outcome.op = "loadFlow" => Integrity(nodes, edges)

\* the stored value parses as an object with a nodes array and no edges
DocWithoutEdges(store) ==
  /\ HasSavedData(store)
  /\ Parse(store.text).ok
  /\ Parse(store.text).v.k = "obj"
  /\ Get(Parse(store.text).v, "nodes").k = "arr"
  /\ Get(Parse(store.text).v, "edges").k = "undef"

\* C8: loadFlow on a stored document without an edges field is no error: it
\* sets the nodes to the document's nodes and the edges to the empty list.
C8_MissingEdgesLoadsEmpty ==
  [][(outcome'.op = "loadFlow" /\ DocWithoutEdges(stored)) =>
       (/\ outcome'.result = "ok"
        /\ nodes' = Get(Parse(stored.text).v, "nodes")
        /\ edges' = Arr(<<>>))]_vars

\* a document without edges has been loaded
C8_Witness ==
  /\ outcome = Outcome("loadFlow", "ok", "Flow loaded")
  /\ DocWithoutEdges(stored)
  /\ nodes = Get(Parse(stored.text).v, "nodes")
  /\ Len(nodes.c) >= 1
  /\ edges = Arr(<<>>)

\* C9: the value under 'mindflow-data' changes in saveFlow only, and a
\* loadFlow that follows clearFlow restores the saved nodes and edges.
C9_NeverImplicitlyDeleted ==
  [][/\ outcome'.op # "saveFlow" => stored' = stored
     /\ (outcome.op = "clearFlow" /\ outcome'.op = "loadFlow" /\ saved.has) =>
          (nodes' = saved.nodes /\ edges' = saved.edges)]_vars

\* clearFlow has emptied the editor and the saved flow is still persisted
C9_Witness ==
  /\ outcome.op = "clearFlow"
  /\ saved.has
  /\ Len(saved.nodes.c) >= 1
  /\ stored = Item(Stringify(Obj(<<"nodes", "edges">>, <<saved.nodes, saved.edges>>)))
  /\ nodes = Arr(<<>>)

\* the node carries the title and content addNode or initialNodes gave it
AsCreated(n) ==
  \E k \in 1..MaxNodeId :
    /\ Get(n, "id") = Str("node-" \o ToString(k))
    /\ Get(n, "data") = Obj(<<"title", "content">>, <<Str("Node " \o ToString(k)), Str("")>>)

\* C10: whatever is typed into the nodes, every node of the nodes state and
\* every node of the persisted document has the title and content it was
\* created with.
C10_EditsStayLocal ==
  /\ \A i \in 1..Len(nodes.c) : AsCreated(nodes.c[i])
  /\ stored.has =>
       LET doc == Get(Parse(stored.text).v, "nodes") IN
       \A i \in 1..Len(doc.c) : AsCreated(doc.c[i])

\* a flow has been saved while the title and the content shown by one of its
\* nodes were edited
C10_Witness ==
  /\ outcome = Outcome("saveFlow", "ok", "Flow saved")
  /\ \E i \in 1..Len(nodes.c) :
       LET id == Get(nodes.c[i], "id").s IN
       /\ id \in DOMAIN local
       /\ local[id].title \in TypedTitles
       /\ local[id].content \in TypedContents
       /\ local[id].title # Get(Get(nodes.c[i], "data"), "title").s

====
